---- MODULE Spec2Model ----
(***************************************************************************)
(* Model of the inverted-index search engine (src/engine/search_engine.py) *)
(* and of the server handlers that construct, build, publish and query it  *)
(* (src/main.py).                                                          *)
(*                                                                         *)
(* Representation.  A Python str is the sequence of its \w+ runs (the      *)
(* tokenizer's view of it); each run is a TLA+ string.  The empty str is   *)
(* the empty sequence.  ' '.join over strs is concatenation of these       *)
(* sequences.  A JSON value is a record tagged by k.  Document identifiers *)
(* are 0-based as in enumerate(); data[d + 1] is the record at position d. *)
(* The nltk tagger and lemmatizer are tables over the words the model      *)
(* uses.  build() is one step: the only thing a concurrent search reads    *)
(* from it is self.inverted_index, which it assigns once.  search() is a   *)
(* step per read of self.inverted_index.                                   *)
(*                                                                         *)
(* Specifications.                                                         *)
(*   Spec        the server: startup, the re-index task, callers that      *)
(*               construct, build and search engines, all interleaved.     *)
(*   SpecEngine  one engine, built and searched in any order, next to an   *)
(*               index file an earlier run may have left.                  *)
(*   SpecBuild   the Index Builder over corpora with records of            *)
(*               unexpected shape.                                         *)
(*   SpecSearch  the Query Engine over built, stale and hand-written       *)
(*               indexes, with nothing rebuilding them.                    *)
(***************************************************************************)
EXTENDS Integers, Sequences, FiniteSets, TLC

\* ---------------------------------------------------------------- bounds
MaxDocs == 2
MaxEngines == 2

\* ----------------------------------------------------------- JSON values
Str(ws)   == [k |-> "str", v |-> ws]
List(xs)  == [k |-> "list", v |-> xs]
Dict(n)   == [k |-> "dict", name |-> n]
Num       == [k |-> "num"]
Null      == [k |-> "null"]
Absent    == [k |-> "absent"]

\* Python truth value of a JSON value (`x or default`, `if n`).
Truthy(x) ==
    CASE x.k = "str"    -> x.v # <<>>
      [] x.k = "list"   -> x.v # <<>>
      [] x.k = "dict"   -> TRUE
      [] x.k = "num"    -> TRUE
      [] x.k = "null"   -> FALSE
      [] x.k = "absent" -> FALSE

\* doc.get(key, default): a missing key yields the default, null stays null.
Get(doc, key, default) == IF doc[key].k = "absent" THEN default ELSE doc[key]

\* `x or default`
OrElse(x, default) == IF Truthy(x) THEN x ELSE default

\* Outcome of an expression that may raise TypeError.
Ok(ws) == [err |-> FALSE, v |-> ws]
Raise  == [err |-> TRUE, v |-> <<>>]

RECURSIVE Flatten(_)
Flatten(xs) == IF xs = <<>> THEN <<>> ELSE Head(xs).v \o Flatten(Tail(xs))

\* ' '.join(xs): raises TypeError unless every item is a str.
Join(xs) ==
    IF \E i \in 1..Len(xs) : xs[i].k # "str" THEN Raise ELSE Ok(Flatten(xs))

\* ------------------------------------------------------------ Normalizer
\* A fragment of nltk's English stop-word list.
stop_words == {"the", "own"}

\* str.lower() on the words the model uses.
Lower(w) ==
    CASE w = "Tax"        -> "tax"
      [] w = "Accounting" -> "accounting"
      [] w = "The"        -> "the"
      [] OTHER            -> w

\* Every lower-case string the normalizer can produce from the model's words.
Strings == {"tax", "taxed", "accounting", "account", "owning", "own", "the"}

\* nltk.pos_tag on the model's words (Penn Treebank tags).
pos_tag(token) ==
    CASE token = "taxed"  -> "VBN"
      [] token = "owning" -> "VBG"
      [] token = "the"    -> "DT"
      [] OTHER            -> "NN"

ADJ  == "a"
VERB == "v"
NOUN == "n"
ADV  == "r"

_get_wordnet_pos(treebank_tag) ==
    IF treebank_tag \in {"JJ", "JJR", "JJS"} THEN ADJ
    ELSE IF treebank_tag \in {"VB", "VBD", "VBG", "VBN", "VBP", "VBZ"} THEN VERB
    ELSE IF treebank_tag \in {"NN", "NNS", "NNP", "NNPS"} THEN NOUN
    ELSE IF treebank_tag \in {"RB", "RBR", "RBS"} THEN ADV
    ELSE NOUN

\* WordNetLemmatizer.lemmatize on the model's words.
lemmatize(token, pos) ==
    CASE pos = VERB /\ token = "taxed"      -> "tax"
      [] pos = VERB /\ token = "accounting" -> "account"
      [] pos = VERB /\ token = "owning"     -> "own"
      [] OTHER                              -> token

\* token[:-len(suffix)] when token.endswith(suffix) and len(token) > minlen.
StripSuffix(token, suffix, minlen) ==
    IF Len(token) > minlen
    THEN {p \in Strings : p \o suffix = token}
    ELSE {}

\* The lemma candidates added for one (token, tag) pair.
Variants(token) ==
    {token,
     lemmatize(token, _get_wordnet_pos(pos_tag(token))),
     lemmatize(token, VERB),
     lemmatize(token, NOUN)}
    \cup StripSuffix(token, "ing", 4)
    \cup StripSuffix(token, "ed", 3)

\* SimpleSearchEngine._preprocess, as the set its returned list holds.
_preprocess(text) ==
    IF text.k # "str" \/ text.v = <<>> THEN {}
    ELSE LET tokens == {Lower(text.v[i]) : i \in 1..Len(text.v)} \ stop_words
             lemmas == UNION {Variants(t) : t \in tokens}
         IN  lemmas \ stop_words

\* ---------------------------------------------------- Document Projector
\* The weighted_text of one record, or the TypeError a field raises.
Project(doc) ==
    LET title    == OrElse(Get(doc, "title", Str(<<>>)), Str(<<>>))
        abstract == OrElse(Get(doc, "abstract", Str(<<>>)), Str(<<>>))
        kws      == OrElse(Get(doc, "keywords", List(<<>>)), List(<<>>))
        keywords == CASE kws.k = "list" -> Join(kws.v)
                      [] kws.k = "str"  -> Ok(kws.v)
                      [] OTHER          -> Ok(<<>>)
        subject  == Get(doc, "subject_areas", Str(<<>>))
        subject_areas == CASE subject.k = "list" -> Join(subject.v)
                           [] subject.k = "str"  -> Ok(subject.v)
                           [] OTHER              -> Ok(<<>>)
        authors_list == OrElse(Get(doc, "authors", List(<<>>)), List(<<>>))
        NameOf(a) == CASE a.k = "dict" -> <<Get(a, "name", Str(<<>>))>>
                       [] a.k = "str"  -> <<a>>
                       [] OTHER        -> <<>>
        Names[i \in 0..Len(authors_list.v)] ==
            IF i = 0 THEN <<>> ELSE Names[i - 1] \o NameOf(authors_list.v[i])
        author_names_list == Names[Len(authors_list.v)]
        author_names == Join(SelectSeq(author_names_list, Truthy))
    IN  IF authors_list.k # "list" THEN Raise
        ELSE IF keywords.err \/ subject_areas.err \/ author_names.err THEN Raise
        ELSE Join(<<title, title, title,
                    Str(keywords.v), Str(keywords.v), Str(keywords.v),
                    Str(author_names.v), Str(author_names.v),
                    abstract, abstract,
                    Str(subject_areas.v)>>)

\* --------------------------------------------------------- Index Builder
\* A dict from token to posting list; a missing key is outside the domain.
EmptyIndex == [t \in {} |-> <<>>]

\* As line 112 would read with insert(0, doc_id) in place of append(doc_id).
PrependPostings(index, tokens, doc_id) ==
    [t \in (DOMAIN index) \cup tokens |->
        IF t \in tokens
        THEN (IF t \in DOMAIN index THEN <<doc_id>> \o index[t] ELSE <<doc_id>>)
        ELSE index[t]]

\* index[token].append(doc_id) for every token of the set, on a defaultdict.
AppendPostings(index, tokens, doc_id) ==
    [t \in (DOMAIN index) \cup tokens |->
        IF t \in tokens
        THEN (IF t \in DOMAIN index THEN Append(index[t], doc_id) ELSE <<doc_id>>)
        ELSE index[t]]

\* SimpleSearchEngine._build_index over data: the index, or a TypeError.
RECURSIVE IndexFrom(_, _, _)
IndexFrom(data, doc_id, index) ==
    IF doc_id >= Len(data) THEN [err |-> FALSE, index |-> index]
    ELSE LET weighted_text == Project(data[doc_id + 1])
         IN  IF weighted_text.err THEN [err |-> TRUE, index |-> EmptyIndex]
             ELSE IndexFrom(data, doc_id + 1,
                            AppendPostings(index, _preprocess(Str(weighted_text.v)), doc_id))

_build_index(data) == IndexFrom(data, 0, EmptyIndex)

\* ------------------------------------------------------------- inputs
DocA ==
    [title |-> Str(<<"Tax">>),
     abstract |-> Str(<<"The", "accounting">>),
     authors |-> List(<<Dict(Str(<<"owning">>))>>),
     keywords |-> List(<<Str(<<"tax">>)>>),
     subject_areas |-> Absent]

DocB ==
    [title |-> Str(<<"account">>),
     abstract |-> Null,
     authors |-> List(<<Str(<<"taxed">>)>>),
     keywords |-> Str(<<"account">>),
     subject_areas |-> List(<<Str(<<"account">>)>>)]

\* A record whose title is a number.
DocM ==
    [title |-> Num,
     abstract |-> Str(<<"tax">>),
     authors |-> Absent,
     keywords |-> Absent,
     subject_areas |-> Absent]

\* Unexpected shapes that the projector's type tests let through.
DocK ==
    [title |-> Null,
     abstract |-> Str(<<"taxed">>),
     authors |-> List(<<Num, Dict(Null), Dict(Absent), Str(<<>>)>>),
     keywords |-> Num,
     subject_areas |-> Null]

\* A keywords list with a number in it.
DocL ==
    [title |-> Str(<<"account">>),
     abstract |-> Absent,
     authors |-> Absent,
     keywords |-> List(<<Str(<<"tax">>), Num>>),
     subject_areas |-> Absent]

\* An author whose name is a number.
DocN ==
    [title |-> Str(<<"account">>),
     abstract |-> Absent,
     authors |-> List(<<Dict(Num)>>),
     keywords |-> Absent,
     subject_areas |-> Absent]

\* A subject_areas list with a null in it.
DocS ==
    [title |-> Str(<<"account">>),
     abstract |-> Absent,
     authors |-> Absent,
     keywords |-> Absent,
     subject_areas |-> List(<<Null>>)]

\* An abstract that is a number.
DocT ==
    [title |-> Str(<<"account">>),
     abstract |-> Num,
     authors |-> Absent,
     keywords |-> Absent,
     subject_areas |-> Absent]

Records == {DocA, DocM}

WellFormed == {DocA, DocB}

BuilderRecords == {DocA, DocB, DocK, DocL, DocM, DocN, DocS, DocT}

SeqsUpTo(S, n) == UNION {[1..k -> S] : k \in 0..n}

\* The corpora publications_data.json may hold.
Corpora == SeqsUpTo(Records, MaxDocs)

\* The query strings of the callers; None is a non-str query.
Queries == {Str(<<"tax", "account">>), Str(<<"The">>), Null}

\* An index file whose posting lists are neither sorted nor duplicate-free.
FileU ==
    [t \in {"account", "tax", "owning"} |->
        CASE t = "account" -> <<1, 0, 1>>
          [] t = "tax"     -> <<1, 0>>
          [] t = "owning"  -> <<>>]

\* ---------------------------------------------------------------- state
VARIABLES
    engines,    \* the SimpleSearchEngine objects constructed so far
    file,       \* ./data/inverted_index.json
    published,  \* ml_models["search_engine"]: an engine, or 0 when unset
    task,       \* the background task scrape_and_index
    srch,       \* the search call in flight, or the outcome of the last one;
                \* reads is history: the indexes its posting lookups have seen
    exc         \* the exception the last build() call raised, or "none"

vars == <<engines, file, published, task, srch, exc>>

\* self.inverted_index / the index file: absent, or a mapping.
NoIndex   == [present |-> FALSE, map |-> EmptyIndex]
Index(m)  == [present |-> TRUE, map |-> m]

Engine(data) == [data |-> data, inverted_index |-> NoIndex]

IdleTask == [pc |-> "idle", e |-> 0]
IdleSearch ==
    [pc |-> "idle", e |-> 0, query |-> Null, tokens |-> <<>>, i |-> 0,
     matching |-> {}, results |-> <<>>, ids |-> <<>>, error |-> "none",
     reads |-> {}]

Init ==
    /\ engines = <<>>
    /\ file = NoIndex
    /\ published = 0
    /\ task = IdleTask
    /\ srch = IdleSearch
    /\ exc = "none"

\* ------------------------------------------------------------ build()
\* As line 119 would read if it tested only for the file.
UseCacheIgnoringForce(exists, force_rebuild) == exists

\* Line 119: load the persisted index instead of building.
UseCache(exists, force_rebuild) == exists /\ ~force_rebuild

\* SimpleSearchEngine.build on an engine: the engine after the call, the
\* index file after the call, and the exception raised.
build(engine, f, force_rebuild) ==
    IF UseCache(f.present, force_rebuild)
    THEN [engine |-> [engine EXCEPT !.inverted_index = f],
          file |-> f, exc |-> "none"]
    ELSE LET built == _build_index(engine.data)
         IN  IF built.err
             THEN [engine |-> engine, file |-> f, exc |-> "TypeError"]
             ELSE [engine |-> [engine EXCEPT !.inverted_index = Index(built.index)],
                   file |-> Index(built.index), exc |-> "none"]

\* Engines a caller thread can reach: all but the background task's local one.
Shared == {e \in 1..Len(engines) : ~(task.pc # "idle" /\ task.e = e)}

\* SimpleSearchEngine(data)
Construct(data) ==
    /\ Len(engines) < MaxEngines
    /\ engines' = Append(engines, Engine(data))
    /\ UNCHANGED <<file, published, task, srch, exc>>

\* engine.build(force_rebuild) by a caller
Build(e, force_rebuild) ==
    LET r == build(engines[e], file, force_rebuild)
    IN  /\ engines' = [engines EXCEPT ![e] = r.engine]
        /\ file' = r.file
        /\ exc' = r.exc
        /\ UNCHANGED <<published, task, srch>>

\* main.lifespan: load the corpus, construct, build(), publish.
Lifespan(data) ==
    /\ published = 0
    /\ Len(engines) < MaxEngines
    /\ LET r == build(Engine(data), file, FALSE)
       IN  /\ engines' = Append(engines, r.engine)
           /\ file' = r.file
           /\ exc' = r.exc
           /\ published' = IF r.exc = "none" THEN Len(engines) + 1 ELSE published
    /\ UNCHANGED <<task, srch>>

\* ------------------------------------------- trigger_scrape's background task
\* run_scrape(); json.load; engine = SimpleSearchEngine(data=publication_data)
TaskLoad(data) ==
    /\ task.pc = "idle"
    /\ Len(engines) < MaxEngines
    /\ engines' = Append(engines, Engine(data))
    /\ task' = [pc |-> "build", e |-> Len(engines) + 1]
    /\ UNCHANGED <<file, published, srch, exc>>

\* engine.build()
TaskBuild ==
    /\ task.pc = "build"
    /\ LET r == build(engines[task.e], file, FALSE)
       IN  /\ engines' = [engines EXCEPT ![task.e] = r.engine]
           /\ file' = r.file
           /\ exc' = r.exc
           /\ task' = IF r.exc = "none" THEN [task EXCEPT !.pc = "publish"] ELSE IdleTask
    /\ UNCHANGED <<published, srch>>

\* ml_models["search_engine"] = engine
TaskPublish ==
    /\ task.pc = "publish"
    /\ published' = task.e
    /\ task' = IdleTask
    /\ UNCHANGED <<engines, file, srch, exc>>

\* ------------------------------------------------------------ search()
\* list(cleaned): the orders in which a set can be listed.
Orders(S) ==
    {o \in [1..Cardinality(S) -> S] : \A i, j \in 1..Cardinality(S) : o[i] = o[j] => i = j}

\* set(self.inverted_index.get(token, []))
Posting(index, token) ==
    IF token \in DOMAIN index
    THEN {index[token][i] : i \in 1..Len(index[token])}
    ELSE {}

\* As line 139 would read with update() in place of intersection_update().
union_update(matching_docs_set, posting) == matching_docs_set \cup posting

\* matching_docs_set.intersection_update(posting)
intersection_update(matching_docs_set, posting) == matching_docs_set \cap posting

\* As line 140 would read without sorted(): the set listed in some other order.
RECURSIVE Unsorted(_)
Unsorted(S) ==
    IF S = {} THEN <<>>
    ELSE LET m == CHOOSE x \in S : \A y \in S : x >= y
         IN  <<m>> \o Unsorted(S \ {m})

\* sorted(list(matching_docs_set))
RECURSIVE Sorted(_)
Sorted(S) ==
    IF S = {} THEN <<>>
    ELSE LET m == CHOOSE x \in S : \A y \in S : x <= y
         IN  <<m>> \o Sorted(S \ {m})

\* As lines 132-136 would read if the query were normalized before the check.
SearchEntryEmptyFirst(inverted_index, query) ==
    IF _preprocess(query) = {} THEN "empty"
    ELSE IF ~inverted_index.present THEN "RuntimeError"
    ELSE "tokens"

\* Lines 132-136: how a call leaves the entry checks.
SearchEntry(inverted_index, query) ==
    IF ~inverted_index.present THEN "RuntimeError"
    ELSE IF _preprocess(query) = {} THEN "empty"
    ELSE "tokens"

\* search(query) is called on engine e and runs lines 132-136.
SearchCall(e, query) ==
    /\ srch.pc \in {"idle", "done", "raised"}
    /\ LET entry == SearchEntry(engines[e].inverted_index, query)
           call  == [IdleSearch EXCEPT !.e = e, !.query = query]
       IN  CASE entry = "RuntimeError" ->
                    srch' = [call EXCEPT !.pc = "raised", !.error = "RuntimeError"]
             [] entry = "empty" ->
                    srch' = [call EXCEPT !.pc = "done"]
             [] entry = "tokens" ->
                    \E o \in Orders(_preprocess(query)) :
                        srch' = [call EXCEPT !.pc = "first", !.tokens = o]
    /\ UNCHANGED <<engines, file, published, task, exc>>

\* Line 137: the posting list of the first token, as a set.
SearchFirst ==
    /\ srch.pc = "first"
    /\ LET ix == engines[srch.e].inverted_index
       IN  srch' = [srch EXCEPT !.pc = "loop", !.i = 2,
                                !.matching = Posting(ix.map, srch.tokens[1]),
                                !.reads = @ \cup {ix}]
    /\ UNCHANGED <<engines, file, published, task, exc>>

\* Lines 138-139: one iteration of the intersection loop.
SearchNext ==
    /\ srch.pc = "loop"
    /\ srch.i <= Len(srch.tokens)
    /\ LET ix == engines[srch.e].inverted_index
       IN  srch' = [srch EXCEPT !.i = @ + 1,
                                !.matching = intersection_update(@, Posting(ix.map, srch.tokens[srch.i])),
                                !.reads = @ \cup {ix}]
    /\ UNCHANGED <<engines, file, published, task, exc>>

\* Line 140: results = [self.data[doc_id] for doc_id in sorted(...)]
SearchCollect ==
    /\ srch.pc = "loop"
    /\ srch.i > Len(srch.tokens)
    /\ LET data == engines[srch.e].data
           ids  == Sorted(srch.matching)
       IN  IF \E k \in 1..Len(ids) : ids[k] >= Len(data)
           THEN srch' = [srch EXCEPT !.pc = "raised", !.ids = ids, !.error = "IndexError"]
           ELSE srch' = [srch EXCEPT !.pc = "done", !.ids = ids,
                                     !.results = [k \in 1..Len(ids) |-> data[ids[k] + 1]]]
    /\ UNCHANGED <<engines, file, published, task, exc>>

\* ------------------------------------------------------------------ Spec
Next ==
    \/ \E data \in Corpora : Construct(data)
    \/ \E e \in Shared, force_rebuild \in BOOLEAN : Build(e, force_rebuild)
    \/ \E data \in Corpora : Lifespan(data)
    \/ \E data \in Corpora : TaskLoad(data)
    \/ TaskBuild
    \/ TaskPublish
    \/ \E e \in Shared, query \in Queries : SearchCall(e, query)
    \/ SearchFirst
    \/ SearchNext
    \/ SearchCollect

Spec == Init /\ [][Next]_vars

\* ------------------------------------------------- the Index Builder alone
\* One engine over any corpus, records of unexpected shape included; build()
\* is called on it again and again.
BuilderCorpora == SeqsUpTo(BuilderRecords, MaxDocs)

InitBuild ==
    /\ engines \in {<<Engine(data)>> : data \in BuilderCorpora}
    /\ file = NoIndex
    /\ published = 0
    /\ task = IdleTask
    /\ srch = IdleSearch
    /\ exc = "none"

NextBuild == \E force_rebuild \in BOOLEAN : Build(1, force_rebuild)

SpecBuild == InitBuild /\ [][NextBuild]_vars

\* The index files a run may find or leave: built from some corpus, or FileU.
SearchIndexes ==
    {_build_index(data).index : data \in SeqsUpTo(WellFormed, MaxDocs)} \cup {FileU}

\* ------------------------------------------------------ one engine alone
\* One engine over any corpus, in a directory where an earlier run may have
\* left an index file; build() and search() are called on it in any order.
InitEngine ==
    /\ engines \in {<<Engine(data)>> : data \in Corpora}
    /\ file \in {NoIndex} \cup {Index(m) : m \in SearchIndexes}
    /\ published = 0
    /\ task = IdleTask
    /\ srch = IdleSearch
    /\ exc = "none"

NextEngine ==
    \/ \E force_rebuild \in BOOLEAN : Build(1, force_rebuild)
    \/ \E query \in Queries : SearchCall(1, query)
    \/ SearchFirst
    \/ SearchNext
    \/ SearchCollect

SpecEngine == InitEngine /\ [][NextEngine]_vars

\* ------------------------------------------------ the Query Engine alone
\* One engine whose index was built from a corpus or loaded from a file,
\* queried by one caller at a time; nothing rebuilds it.
SearchQueries ==
    Queries \cup {Str(<<"accounting">>), Str(<<"account">>), Str(<<>>),
                  Str(<<"account", "tax">>), Str(<<"taxed", "owning">>)}

InitSearch ==
    /\ engines \in {<<[data |-> data, inverted_index |-> Index(m)]>> :
                        data \in SeqsUpTo(WellFormed, MaxDocs), m \in SearchIndexes}
    /\ file = NoIndex
    /\ published = 0
    /\ task = IdleTask
    /\ srch = IdleSearch
    /\ exc = "none"

NextSearch ==
    \/ \E query \in SearchQueries : SearchCall(1, query)
    \/ SearchFirst
    \/ SearchNext
    \/ SearchCollect

SpecSearch == InitSearch /\ [][NextSearch]_vars

\* ---------------------------------------------------------------- claims
Built(e) == engines[e].inverted_index.present

\* The index the Index Builder yields for an engine's own corpus.
Fresh(e) == Index(_build_index(engines[e].data).index)

\* C1: a search call on an engine without an index raises the "not ready"
\* error whatever the query, a search call on an engine with an index does
\* not, every build() call that completes leaves an index, and no step
\* takes an index away from an engine that has one.
C1_NotReadyUntilBuilt ==
    [][/\ \A e \in 1..Len(engines), query \in Queries :
            SearchCall(e, query) => (srch'.error = "RuntimeError" <=> ~Built(e))
       /\ \A e \in 1..Len(engines), force_rebuild \in BOOLEAN :
            Build(e, force_rebuild) /\ exc' = "none" => engines'[e].inverted_index.present
       /\ \A e \in 1..Len(engines) : Built(e) => engines'[e].inverted_index.present]_vars

\* C1 witness: a call with a query that normalizes to nothing was refused,
\* and the engine it was made on has been built since.
C1_Witness ==
    /\ srch.error = "RuntimeError"
    /\ _preprocess(srch.query) = {}
    /\ Built(srch.e)

\* C2: a completed build(force_rebuild) builds from the engine's corpus and
\* saves the result exactly when force_rebuild holds or no index file exists;
\* otherwise it takes the file's content and leaves the file as it is.
C2_BuildOrLoad ==
    [][\A e \in 1..Len(engines), force_rebuild \in BOOLEAN :
          Build(e, force_rebuild) /\ exc' = "none" =>
              IF force_rebuild \/ ~file.present
              THEN engines'[e].inverted_index = Fresh(e) /\ file' = Fresh(e)
              ELSE engines'[e].inverted_index = file /\ file' = file]_vars

\* C2 witness: an engine holds an index loaded from the file, which is not the
\* index of its own corpus.
C2_Witness ==
    \E e \in 1..Len(engines) :
        /\ Built(e) /\ engines[e].inverted_index = file /\ file # Fresh(e)
        /\ exc = "none"

\* C3: the build step of the re-index task leaves the new engine with the
\* index built from the corpus just loaded, and the index file holds it too.
C3_TriggerRebuilds ==
    [][TaskBuild /\ exc' = "none" =>
          engines'[task.e].inverted_index = Fresh(task.e) /\ file' = Fresh(task.e)]_vars

\* C4: all the posting-list lookups of one search call see the same index.
C4_OneSnapshot == Cardinality(srch.reads) <= 1

\* C9: a search call on an engine that has an index never raises.
C9_SearchNeverFails == srch.error # "IndexError"

\* ---- claims about the Index Builder (SpecBuild)
\* C8: build() never raises on a record of unexpected shape.
C8_BuildNeverFails == exc # "TypeError"

\* The identifiers 0 .. len(data) - 1.
Positions(data) == 0..(Len(data) - 1)

\* C10: in a built index every posting list is strictly increasing, holds
\* positions of the corpus only, holds d exactly when the token is in the
\* normalized projection of record d, and is never empty.
C10_PostingLists ==
    \A e \in 1..Len(engines) :
        Built(e) =>
            LET index == engines[e].inverted_index.map
                data  == engines[e].data
            IN  /\ \A t \in DOMAIN index :
                    /\ index[t] # <<>>
                    /\ \A i \in 1..Len(index[t]) : index[t][i] \in Positions(data)
                    /\ \A i, j \in 1..Len(index[t]) : i < j => index[t][i] < index[t][j]
                /\ \A t \in Strings, d \in Positions(data) :
                    (t \in DOMAIN index /\ \E i \in 1..Len(index[t]) : index[t][i] = d)
                        <=> t \in _preprocess(Str(Project(data[d + 1]).v))

\* C10 witness: a built index over two records with a token in both and a
\* token in the second only, one record being of an unexpected but tolerated
\* shape.
C10_Witness ==
    /\ Built(1)
    /\ engines[1].data = <<DocK, DocB>>
    /\ engines[1].inverted_index.map["taxed"] = <<0, 1>>
    /\ engines[1].inverted_index.map["account"] = <<1>>

\* ---- claims about the Query Engine (SpecSearch)
\* The identifiers listed under a token; none when the token is missing.
Listed(index, t) ==
    IF t \in DOMAIN index THEN {d \in 0..MaxDocs : \E i \in 1..Len(index[t]) : index[t][i] = d}
    ELSE {}

Returned == {srch.ids[k] : k \in 1..Len(srch.ids)}

\* C5: a search that returns for a query with at least one token returns
\* the records whose identifiers are listed under every token of the query,
\* whatever the order of the tokens.
C5_Conjunctive ==
    srch.pc = "done" /\ _preprocess(srch.query) # {} =>
        /\ Returned = {d \in 0..MaxDocs : \A t \in _preprocess(srch.query) :
                            d \in Listed(engines[srch.e].inverted_index.map, t)}
        /\ Len(srch.results) = Len(srch.ids)
        /\ \A k \in 1..Len(srch.ids) : srch.results[k] = engines[srch.e].data[srch.ids[k] + 1]

\* C5 witness: a two-token query returned one record, fewer than are listed
\* under its first token.
C5_Witness ==
    /\ srch.pc = "done"
    /\ Len(srch.tokens) = 2
    /\ Len(srch.ids) = 1
    /\ Cardinality(Listed(engines[srch.e].inverted_index.map, srch.tokens[1])) = 2

\* C6: the records a search returns are in strictly ascending order of
\* identifier.
C6_AscendingOrder ==
    srch.pc = "done" =>
        \A i, j \in 1..Len(srch.ids) : i < j => srch.ids[i] < srch.ids[j]

\* C6 witness: two records were returned from an index whose posting list for
\* the first token is not in ascending order.
C6_Witness ==
    /\ srch.pc = "done"
    /\ Len(srch.ids) = 2
    /\ engines[srch.e].inverted_index.map = FileU
    /\ srch.tokens[1] = "tax"

\* C7: on an engine whose index was built from its own corpus, a one-word
\* query returns every record listed under at least one of the word's lemma
\* variants.
C7_AnyVariant ==
    (/\ srch.pc = "done"
     /\ srch.query.k = "str" /\ Len(srch.query.v) = 1
     /\ engines[srch.e].inverted_index = Fresh(srch.e))
    => Returned = {d \in 0..MaxDocs : \E t \in _preprocess(srch.query) :
                        d \in Listed(engines[srch.e].inverted_index.map, t)}

====
